---------------------------- MODULE Spec2Model ----------------------------
(***************************************************************************)
(* ENEM 2023 dashboard (main.py, src/services/streamlit_service.py,        *)
(* src/utils/prompt.py): the Streamlit script as a state machine, and the  *)
(* pandas pipeline it runs (load, groupby/aggregate, sample, pivot,        *)
(* prompt) as operators.                                                   *)
(*                                                                         *)
(* Numbers.  A float is a record [k, n, d]: k = "num" is the rational n/d  *)
(* in lowest terms (d > 0); k = "nan", "inf", "ninf" are the IEEE special  *)
(* values (n = 0, d = 1).  Arithmetic follows numpy.float64: a division by *)
(* zero yields inf, -inf or nan, it does not raise.                        *)
(***************************************************************************)
EXTENDS Integers, Sequences, FiniteSets, TLC

VARIABLES
    (* the Streamlit session (specification Spec) *)
    file,           \* ./data/output/enem_2023_tratado.csv as found on disk
    pc,             \* position of the current script run
    runs,           \* script runs started in this session
    clicked,        \* the button whose click triggered this run ("none": a widget change)
    selected_area,  \* st.sidebar.selectbox value
    chart_type,     \* st.sidebar.radio value
    df,             \* main.py global df of this run
    load_calls,     \* read_csv calls made by this run
    steps,          \* computation steps (chart, metrics, aggregation, summary) done by this run
    page,           \* what this run has rendered: element name -> value
    ai_cache,       \* st.cache_data store of generate_ai_summary
    request,        \* the summary request of this run, if any
    log,            \* records emitted by logger in this run
    (* the core operations applied to drawn inputs (specification CoreSpec) *)
    records,        \* the record table handed to the operations
    records0,       \* the table as first drawn
    long_in,        \* a long-form table handed to pivot
    call,           \* the last operation applied, with its arguments
    out,            \* its result
    again           \* the result of applying it a second time to the same arguments

vars == <<file, pc, runs, clicked, selected_area, chart_type, df, load_calls,
          steps, page, ai_cache, request, log,
          records, records0, long_in, call, out, again>>

sessionVars == <<file, pc, runs, clicked, selected_area, chart_type, df,
                 load_calls, steps, page, ai_cache, request, log>>

coreVars == <<records, records0, long_in, call, out, again>>

(***************************************************************************)
(* Bounds of the model.                                                    *)
(***************************************************************************)
MaxRows == 2        \* rows of a drawn record table
MaxLong == 2        \* rows of a drawn long-form table
MaxRuns == 4        \* script runs explored per session

(***************************************************************************)
(* numpy.float64                                                           *)
(***************************************************************************)
Abs(x) == IF x < 0 THEN -x ELSE x

Min(a, b) == IF a <= b THEN a ELSE b

RECURSIVE Gcd(_, _)
Gcd(a, b) == IF b = 0 THEN a ELSE Gcd(b, a % b)

NaN == [k |-> "nan", n |-> 0, d |-> 1]

Inf == [k |-> "inf", n |-> 0, d |-> 1]

NegInf == [k |-> "ninf", n |-> 0, d |-> 1]

Rat(n, d) ==
    LET s == IF d < 0 THEN -1 ELSE 1
        g == Gcd(Abs(n), Abs(d))
    IN  [k |-> "num", n |-> (s * n) \div g, d |-> (s * d) \div g]

Num(i) == [k |-> "num", n |-> i, d |-> 1]

IsNum(x) == x.k = "num"

isna(x) == x.k = "nan"

Sign(x) == CASE x.k = "inf" -> 1
             [] x.k = "ninf" -> -1
             [] x.k = "num" -> (IF x.n > 0 THEN 1 ELSE IF x.n < 0 THEN -1 ELSE 0)
             [] OTHER -> 0

Signed(s) == IF s > 0 THEN Inf ELSE IF s < 0 THEN NegInf ELSE NaN

FNeg(x) == CASE x.k = "num" -> Rat(-x.n, x.d)
             [] x.k = "inf" -> NegInf
             [] x.k = "ninf" -> Inf
             [] OTHER -> NaN

FAdd(x, y) ==
    CASE isna(x) \/ isna(y) -> NaN
      [] IsNum(x) /\ IsNum(y) -> Rat(x.n * y.d + y.n * x.d, x.d * y.d)
      [] IsNum(x) -> y
      [] IsNum(y) -> x
      [] OTHER -> IF x.k = y.k THEN x ELSE NaN

FSub(x, y) == FAdd(x, FNeg(y))

FMul(x, y) ==
    CASE isna(x) \/ isna(y) -> NaN
      [] IsNum(x) /\ IsNum(y) -> Rat(x.n * y.n, x.d * y.d)
      [] OTHER -> Signed(Sign(x) * Sign(y))

\* x / y on numpy.float64: x / 0 is inf, -inf or nan (a RuntimeWarning, no exception).
FDiv(x, y) ==
    CASE isna(x) \/ isna(y) -> NaN
      [] IsNum(x) /\ IsNum(y) ->
            IF y.n = 0 THEN Signed(Sign(x)) ELSE Rat(x.n * y.d, x.d * y.n)
      [] IsNum(y) -> Signed(Sign(x) * (IF y.n < 0 THEN -1 ELSE 1))
      [] IsNum(x) -> Num(0)
      [] OTHER -> NaN

FLess(x, y) == IsNum(x) /\ IsNum(y) /\ x.n * y.d < y.n * x.d

IsSquare(i) == \E r \in 0..i : r * r = i

Root(i) == CHOOSE r \in 0..i : r * r = i

\* The square root of a non-negative x: exact when x is the square of a rational,
\* otherwise the irrational root kept in symbolic form, k = "sqrt" (of n/d).
Sqrt(x) ==
    IF ~IsNum(x) THEN x
    ELSE IF IsSquare(x.n) /\ IsSquare(x.d) THEN Rat(Root(x.n), Root(x.d))
    ELSE [k |-> "sqrt", n |-> x.n, d |-> x.d]

\* round(x * 10^p) with ties to even, p decimal places kept as an integer.
RoundScaled(x, scale) ==
    LET num == x.n * scale
        q   == num \div x.d
        r2  == 2 * (num % x.d)
    IN  IF r2 > x.d \/ (r2 = x.d /\ q % 2 = 1) THEN q + 1 ELSE q

\* f"{x:.1f}": the text of a float with one decimal place ("nan", "inf", "-inf").
Format1f(x) ==
    IF IsNum(x) THEN [text |-> "fixed", tenths |-> RoundScaled(x, 10)]
    ELSE [text |-> x.k, tenths |-> 0]


(***************************************************************************)
(* Sequences                                                               *)
(***************************************************************************)
Range(s) == {s[i] : i \in 1..Len(s)}

Map(s, F(_)) == [i \in 1..Len(s) |-> F(s[i])]

RECURSIVE Concat(_)
Concat(ss) == IF ss = <<>> THEN <<>> ELSE Head(ss) \o Concat(Tail(ss))

RECURSIVE FSum(_)
FSum(s) == IF s = <<>> THEN Num(0) ELSE FAdd(Head(s), FSum(Tail(s)))

RECURSIVE Insert(_, _)
Insert(x, s) ==
    IF s = <<>> THEN <<x>>
    ELSE IF FLess(Head(s), x) THEN <<Head(s)>> \o Insert(x, Tail(s))
    ELSE <<x>> \o s

RECURSIVE Sort(_)
Sort(s) == IF s = <<>> THEN <<>> ELSE Insert(Head(s), Sort(Tail(s)))

SeqsUpTo(S, n) == UNION {[1..k -> S] : k \in 0..n}

(***************************************************************************)
(* The data file and load_data                                             *)
(***************************************************************************)
NA == "NaN"    \* an empty cell of a text column

TEM_INTERNET == "Tem internet em casa"

NAO_TEM_INTERNET == "Nao tem internet em casa"

\* main.py AREA_OPTIONS, in the dict's insertion order: <<area name, column>>.
AREA_OPTIONS ==
    << <<"Media Geral", "NU_NOTA_MEDIA">>,
       <<"Ciencias da Natureza", "NU_NOTA_CN">>,
       <<"Ciencias Humanas", "NU_NOTA_CH">>,
       <<"Linguagens", "NU_NOTA_LC">>,
       <<"Matematica", "NU_NOTA_MT">>,
       <<"Redacao", "NU_NOTA_REDACAO">> >>

AreaNames == {AREA_OPTIONS[i][1] : i \in 1..Len(AREA_OPTIONS)}

AreaCol(name) ==
    AREA_OPTIONS[CHOOSE i \in 1..Len(AREA_OPTIONS) : AREA_OPTIONS[i][1] = name][2]

NotaCols == {AREA_OPTIONS[i][2] : i \in 1..Len(AREA_OPTIONS)}

CHART_TYPES == <<"Boxplot Simplificado", "Histograma Agregado", "Medias Comparadas">>

\* The text values the model uses, in the order sorted() gives them
\* (astype('category'), groupby and pivot sort their labels).
TextSorted ==
    <<"Alta", "Baixa", "Ciencias Humanas", "Ciencias da Natureza", "Linguagens",
      "Matematica", "Media Geral", NAO_TEM_INTERNET, "Redacao", TEM_INTERNET>>

InternetValues == {TEM_INTERNET, NAO_TEM_INTERNET, NA}

RendaValues == {"Baixa", "Alta"}

\* A row of the file: the score of column number w is base * w (base -1: every
\* score cell is empty), so the columns of one row differ and each can be zero.
Nota(base, w) == IF base < 0 THEN NaN ELSE Num(base * w)

CsvRow(internet, renda, base) ==
    [INTERNET |-> internet, RENDA_SIMPLIFICADA |-> renda,
     NU_NOTA_MEDIA |-> Nota(base, 1), NU_NOTA_CN |-> Nota(base, 2),
     NU_NOTA_CH |-> Nota(base, 3), NU_NOTA_LC |-> Nota(base, 4),
     NU_NOTA_MT |-> Nota(base, 5), NU_NOTA_REDACAO |-> Nota(base, 6)]

CsvRows ==
    {CsvRow(i, r, b) : i \in InternetValues, r \in RendaValues, b \in {-1, 0, 1}}

CsvTables == SeqsUpTo(CsvRows, MaxRows)

\* astype('category') of a text column: the sorted distinct non-null values.
Categories(rows, col) ==
    SelectSeq(TextSorted, LAMBDA c : \E i \in 1..Len(rows) : rows[i][col] = c)

\* load_data on a readable file: every row, text columns made categorical.
load_data(csv) ==
    [rows |-> csv,
     categories |-> [INTERNET |-> Categories(csv, "INTERNET"),
                     RENDA_SIMPLIFICADA |-> Categories(csv, "RENDA_SIMPLIFICADA")]]

(***************************************************************************)
(* groupby and the reductions (pandas, skipna)                             *)
(***************************************************************************)
RECURSIVE Product(_)
Product(cats) ==
    IF cats = <<>> THEN << <<>> >>
    ELSE LET rest == Product(Tail(cats))
             h == Head(cats)
             l == Len(rest)
         IN  [idx \in 1..(Len(h) * l) |->
                  <<h[((idx - 1) \div l) + 1]>> \o rest[((idx - 1) % l) + 1]]

\* The rows of one group: those whose key columns equal `key`.
Members(_df, by, key) ==
    SelectSeq(_df.rows, LAMBDA r : \A i \in 1..Len(by) : r[by[i]] = key[i])

\* df.groupby(by, observed=...): the group keys, in sorted order.  A row with a
\* null key belongs to no group (dropna=True); with observed=True only the key
\* combinations that occur are groups.
groupby(_df, by, observed) ==
    LET all == Product([i \in 1..Len(by) |-> _df.categories[by[i]]])
    IN  IF observed THEN SelectSeq(all, LAMBDA key : Members(_df, by, key) # <<>>)
        ELSE all

Column(rows, col) == [i \in 1..Len(rows) |-> rows[i][col]]

notna(values) == SelectSeq(values, LAMBDA x : ~isna(x))

\* A variant that counts the missing values too (size instead of count).
count_size(values) == Len(values)

count(values) == Len(notna(values))

mean(values) ==
    IF count(values) = 0 THEN NaN
    ELSE FDiv(FSum(notna(values)), Num(count(values)))

\* Linear interpolation between the two nearest order statistics.
quantile(values, qn, qd) ==
    LET x == Sort(notna(values))
        n == Len(x)
        lo == (qn * (n - 1)) \div qd
        frac == Rat((qn * (n - 1)) % qd, qd)
    IN  IF n = 0 THEN NaN
        ELSE IF lo + 2 > n THEN x[n]
        ELSE FAdd(x[lo + 1], FMul(frac, FSub(x[lo + 2], x[lo + 1])))

median(values) == quantile(values, 1, 2)

\* The sample standard deviation (ddof=1).
std(values) ==
    LET x == notna(values)
        m == mean(values)
    IN  IF Len(x) < 2 THEN NaN
        ELSE Sqrt(FDiv(FSum([i \in 1..Len(x) |-> FMul(FSub(x[i], m), FSub(x[i], m))]),
                       Num(Len(x) - 1)))

fmin(values) == LET x == Sort(notna(values)) IN IF x = <<>> THEN NaN ELSE x[1]

fmax(values) == LET x == Sort(notna(values)) IN IF x = <<>> THEN NaN ELSE x[Len(x)]

KeyRow(by, key) == [c \in Range(by) |-> key[CHOOSE i \in 1..Len(by) : by[i] = c]]

\* _df.groupby(by, observed=True)[col].mean().reset_index(): one row per group,
\* the key columns and the mean.
groupby_mean(_df, by, col) ==
    Map(groupby(_df, by, TRUE),
        LAMBDA key : KeyRow(by, key) @@ (col :> mean(Column(Members(_df, by, key), col))))

DESCRIBE_COLUMNS == <<"count", "mean", "std", "min", "25%", "50%", "75%", "max">>

\* _df.groupby(by, observed=True)[col].describe(), one row per group.
describe(_df, by, col) ==
    Map(groupby(_df, by, TRUE),
        LAMBDA key :
            LET v == Column(Members(_df, by, key), col)
            IN  KeyRow(by, key) @@
                [s \in {"count", "mean", "std", "min", "25%", "50%", "75%", "max"} |->
                    CASE s = "count" -> Num(count(v))
                      [] s = "mean" -> mean(v)
                      [] s = "std" -> std(v)
                      [] s = "min" -> fmin(v)
                      [] s = "25%" -> quantile(v, 1, 4)
                      [] s = "50%" -> quantile(v, 1, 2)
                      [] s = "75%" -> quantile(v, 3, 4)
                      [] OTHER -> fmax(v)])

\* df.groupby(by, observed=True)[col].agg(['mean', 'median', 'std'])
agg_mean_median_std(_df, by, col) ==
    Map(groupby(_df, by, TRUE),
        LAMBDA key :
            LET v == Column(Members(_df, by, key), col)
            IN  KeyRow(by, key) @@
                [mean |-> mean(v), median |-> median(v), std |-> std(v)])


(***************************************************************************)
(* The views of tab 1                                                      *)
(***************************************************************************)
SampleCap == 5000       \* main.py:72 min(5000, len(_df))

random_state == 42      \* main.py:72 random_state=42

\* One draw of the generator.  numpy's Mersenne Twister is replaced by a small
\* linear congruential generator: what matters is that the stream is a function
\* of the seed alone.
rk_random(s) == (75 * s + 74) % 65537

\* numpy shuffle: for i = n-1 .. 1, swap x[i] with x[j], j drawn in 0..i from the
\* high bits of the next draw.
RECURSIVE shuffle(_, _, _)
shuffle(x, i, s) ==
    IF i < 2 THEN x
    ELSE LET s1 == rk_random(s)
             j == ((s1 \div 16) % i) + 1
         IN  shuffle([x EXCEPT ![i] = x[j], ![j] = x[i]], i - 1, s1)

\* RandomState(seed).permutation(n), seed being <<number>> or <<>> for None; an
\* unseeded generator is seeded from the operating system's entropy.
permutation(n, seed, entropy) ==
    shuffle([i \in 1..n |-> i], n, IF seed = <<>> THEN entropy ELSE seed[1])

\* _df.sample(n, random_state=seed): n rows without replacement, each with the
\* index label it has in _df; a ValueError when n exceeds the table.
sample(_df, n, seed, entropy) ==
    IF n > Len(_df.rows) THEN [raised |-> "ValueError", rows |-> <<>>]
    ELSE LET p == permutation(Len(_df.rows), seed, entropy)
         IN  [raised |-> "none",
              rows |-> [i \in 1..n |-> [index |-> p[i], row |-> _df.rows[p[i]]]]]

\* The non-seeded variant of the call: random_state omitted.
boxplot_sample_unseeded(_df, cap, entropy) ==
    sample(_df, Min(cap, Len(_df.rows)), <<>>, entropy)

\* main.py:72 sample_df = _df.sample(min(5000, len(_df)), random_state=42).  The
\* cap is a parameter here so that a table longer than the cap can be drawn.
boxplot_sample(_df, cap, entropy) ==
    sample(_df, Min(cap, Len(_df.rows)), <<random_state>>, entropy)

\* The two columns a px figure reads from a table's rows.
XY(rows, x, y) == [i \in 1..Len(rows) |-> [x |-> rows[i][x], y |-> rows[i][y]]]

\* generate_comparison_chart: the figure, and the table as the call leaves it.
generate_comparison_chart(_df, area_col, chart, area, cap, entropy) ==
    IF chart = "Boxplot Simplificado" THEN
        LET sample_df == boxplot_sample(_df, cap, entropy)
        IN  [raised |-> sample_df.raised,
             fig |-> [kind |-> "box", title |-> <<"Distribuicao de ", area>>,
                      index |-> Map(sample_df.rows, LAMBDA r : r.index),
                      data |-> XY(Map(sample_df.rows, LAMBDA r : r.row),
                                  "INTERNET", area_col)],
             _df |-> _df]
    ELSE IF chart = "Histograma Agregado" THEN
        [raised |-> "none",
         fig |-> [kind |-> "histogram",
                  title |-> <<"Distribuicao Percentual de ", area>>,
                  index |-> [i \in 1..Len(_df.rows) |-> i],
                  data |-> XY(_df.rows, area_col, "INTERNET")],
         _df |-> _df]
    ELSE
        LET agg_df == groupby_mean(_df, <<"RENDA_SIMPLIFICADA", "INTERNET">>, area_col)
        IN  [raised |-> "none",
             fig |-> [kind |-> "bar",
                      title |-> <<"Medias de ", area, " por Renda e Internet">>,
                      index |-> [i \in 1..Len(agg_df) |-> i],
                      data |-> agg_df],
             _df |-> _df]

\* df[df['INTERNET'] == flag][col]
WhereInternet(_df, flag, col) ==
    Column(SelectSeq(_df.rows, LAMBDA r : r.INTERNET = flag), col)

\* main.py:184-195: the three st.metric values.  The means are numpy.float64, so
\* diff / mean_without does not raise when mean_without is 0 or nan.
tab1_metrics(_df, col) ==
    LET mean_with == mean(WhereInternet(_df, TEM_INTERNET, col))
        mean_without == mean(WhereInternet(_df, NAO_TEM_INTERNET, col))
        diff == FSub(mean_with, mean_without)
        pct == FMul(FDiv(diff, mean_without), Num(100))
    IN  [raised |-> "none",
         mean_with |-> mean_with, mean_without |-> mean_without,
         diff |-> diff, pct |-> pct,
         shown |-> <<Format1f(mean_with), Format1f(mean_without),
                     Format1f(diff), Format1f(pct)>>]


(***************************************************************************)
(* The views of tab 2                                                      *)
(***************************************************************************)
\* main.py:128 the areas that get a subplot, in enumerate() order.
GRID_AREAS == <<"Ciencias da Natureza", "Ciencias Humanas", "Linguagens", "Matematica">>

\* main.py:122-125 make_subplots(rows=2, cols=2, subplot_titles=[...])
SUBPLOT_TITLES ==
    <<"Ciencias da Natureza", "Ciencias Humanas", "Linguagens e Codigos", "Matematica">>

\* The (name, column) pairs the aggregation loops keep: all but 'Media Geral'.
SubjectAreas == SelectSeq(AREA_OPTIONS, LAMBDA a : a[1] # "Media Geral")

\* main.py:112-120: describe()[['mean', '50%']] per area, tagged with the area.
area_stats_df(_df, area_options) ==
    Concat(Map(SelectSeq(area_options, LAMBDA a : a[1] # "Media Geral"),
               LAMBDA a :
                   Map(describe(_df, <<"INTERNET">>, a[2]),
                       LAMBDA r : [c \in {"INTERNET", "mean", "50%"} |-> r[c]]
                                  @@ ("Area" :> a[1]))))

\* A variant that computes the column like the row.
grid_trace_same_cell(stats_df, i, area) ==
    LET area_df == SelectSeq(stats_df, LAMBDA r : r["Area"] = area)
    IN  [name |-> area,
         row |-> (i \div 2) + 1,
         col |-> (i \div 2) + 1,
         x |-> Column(area_df, "INTERNET"),
         y |-> Column(area_df, "mean")]

\* The cell of the i-th listed area (i from 0): one go.Bar trace.
grid_trace(stats_df, i, area) ==
    LET area_df == SelectSeq(stats_df, LAMBDA r : r["Area"] = area)
    IN  [name |-> area,
         row |-> (i \div 2) + 1,
         col |-> (i % 2) + 1,
         x |-> Column(area_df, "INTERNET"),
         y |-> Column(area_df, "mean")]

\* main.py:122-144: the 2x2 figure, one trace per listed area.
area_fig(stats_df) ==
    [rows |-> 2, cols |-> 2, subplot_titles |-> SUBPLOT_TITLES,
     traces |-> [i \in 1..Len(GRID_AREAS) |-> grid_trace(stats_df, i - 1, GRID_AREAS[i])]]

\* A variant that tags the rows of _df itself with the area (stats = _df ...;
\* stats['Area'] = area_name on a view of the caller's table).
generate_area_comparison_inplace(_df, area_options) ==
    LET stats_df == area_stats_df(_df, area_options)
    IN  [fig |-> area_fig(stats_df),
         stats_df |-> stats_df,
         _df |-> [_df EXCEPT !.rows = Map(_df.rows, LAMBDA r : r @@ ("Area" :> "Redacao"))]]

\* generate_area_comparison: the figure, and the table as the call leaves it
\* (the 'Area' column is written to the frame describe() returned, not to _df).
generate_area_comparison(_df, area_options) ==
    LET stats_df == area_stats_df(_df, area_options)
    IN  [fig |-> area_fig(stats_df),
         stats_df |-> stats_df,
         _df |-> _df]

\* main.py:223-231: agg(['mean', 'median', 'std']) per area, tagged and concatenated.
summary_df(_df, area_options) ==
    Concat(Map(SelectSeq(area_options, LAMBDA a : a[1] # "Media Geral"),
               LAMBDA a :
                   Map(agg_mean_median_std(_df, <<"INTERNET">>, a[2]),
                       LAMBDA r : r @@ ("Area" :> a[1]))))

Labels(rows, col) ==
    SelectSeq(TextSorted, LAMBDA c : \E i \in 1..Len(rows) : rows[i][col] = c)

\* A pivot that keeps the last of the rows sharing a key instead of failing.
pivot_keep_last(rows, index, columns, values) ==
    LET idx == Labels(rows, index)
        cols == Product(<<values, Labels(rows, columns)>>)
        Hits(a, c) == {i \in 1..Len(rows) : rows[i][index] = a /\ rows[i][columns] = c[2]}
    IN  [raised |-> "none", index |-> idx, columns |-> cols,
         cells |-> [a \in Range(idx) |-> [c \in Range(cols) |->
                       IF Hits(a, c) = {} THEN NaN
                       ELSE rows[CHOOSE i \in Hits(a, c) : \A j \in Hits(a, c) : j <= i][c[1]]]]]

\* DataFrame.pivot(index, columns, values): one row per index label, one column
\* per (value, column label); a ValueError ("Index contains duplicate entries,
\* cannot reshape") when two rows share (index, columns).
pivot(rows, index, columns, values) ==
    LET idx == Labels(rows, index)
        cols == Product(<<values, Labels(rows, columns)>>)
        Hits(a, c) == {i \in 1..Len(rows) : rows[i][index] = a /\ rows[i][columns] = c[2]}
        dup == \E i, j \in 1..Len(rows) :
                   /\ i < j
                   /\ rows[i][index] = rows[j][index]
                   /\ rows[i][columns] = rows[j][columns]
    IN  IF dup THEN [raised |-> "ValueError", index |-> <<>>, columns |-> <<>>, cells |-> <<>>]
        ELSE [raised |-> "none", index |-> idx, columns |-> cols,
              cells |-> [a \in Range(idx) |-> [c \in Range(cols) |->
                            IF Hits(a, c) = {} THEN NaN
                            ELSE rows[CHOOSE i \in Hits(a, c) : TRUE][c[1]]]]]

\* A variant that pivots the mean alone.
summary_pivot_mean_only(rows) == pivot(rows, "Area", "INTERNET", <<"mean">>)

\* main.py:233 summary_df.pivot(index='Area', columns='INTERNET', values=['mean', 'median'])
summary_pivot(rows) == pivot(rows, "Area", "INTERNET", <<"mean", "median">>)

\* main.py:231-235: st.dataframe(summary_df.pivot(...)).  Nothing catches an
\* exception of pivot: the table is not displayed and the run ends there.
tab2_table(rows, pg) ==
    LET t == summary_pivot(rows)
    IN  IF t.raised = "none"
        THEN [raised |-> "none", wide |-> t, page |-> [pg EXCEPT !.table = <<t>>],
              pc |-> "tab2_summary"]
        ELSE [raised |-> t.raised, wide |-> t, page |-> pg, pc |-> "aborted"]

COMPARISON_COLUMNS == <<"mean_max", "mean_min", "mean_mean", "median_max", "median_min">>

\* main.py:243-246 summary_df.groupby('Area').agg({'mean': [max, min, mean], 'median': [max, min]})
comparison_data(rows) ==
    [index |-> <<"Area">>,
     columns |-> COMPARISON_COLUMNS,
     rows |-> Map(Labels(rows, "Area"),
                  LAMBDA a :
                      LET g == SelectSeq(rows, LAMBDA r : r["Area"] = a)
                      IN  [Area |-> a,
                           mean_max |-> fmax(Column(g, "mean")),
                           mean_min |-> fmin(Column(g, "mean")),
                           mean_mean |-> mean(Column(g, "mean")),
                           median_max |-> fmax(Column(g, "median")),
                           median_min |-> fmin(Column(g, "median"))])]

\* main.py:201 summary_data = df.groupby('INTERNET', observed=True)[col].describe()
summary_data(_df, col) ==
    [index |-> <<"INTERNET">>,
     columns |-> DESCRIBE_COLUMNS,
     rows |-> describe(_df, <<"INTERNET">>, col)]


(***************************************************************************)
(* The prompt, the logger and generate_ai_summary                          *)
(***************************************************************************)
\* The text pandas prints for a float cell: six decimal places.
FormatFloat(x) ==
    CASE IsNum(x) -> [text |-> "fixed", micros |-> RoundScaled(x, 1000000)]
      [] x.k = "sqrt" -> [text |-> "sqrt", micros |-> RoundScaled(Rat(x.n, x.d), 1000000)]
      [] OTHER -> [text |-> x.k, micros |-> 0]

\* DataFrame.to_string(): the header line, then one line per row in the table's
\* own order: the index labels, then each column's cell as text.
to_string(frame) ==
    <<frame.index \o frame.columns>> \o
    Map(frame.rows,
        LAMBDA r : Map(frame.index, LAMBDA c : r[c]) \o
                   Map(frame.columns, LAMBDA c : FormatFloat(r[c])))

\* src/utils/prompt.py generate_prompt: the f-string, piece by piece.
generate_prompt(data_summary, area, chart) ==
    <<"Voce e um analista educacional especializado no ENEM.",
      "Gere um sumario conciso (maximo 150 palavras) em portugues sobre os seguintes dados:",
      "Area analisada: ", area,
      "Tipo de visualizacao: ", chart,
      "Dados estatisticos:", to_string(data_summary),
      "Inclua:", "1. Principais insights", "2. Diferencas notaveis entre grupos",
      "3. Possiveis implicacoes educacionais">>

\* logging levels; src/config/logger.py:12 sets the threshold to INFO.
LevelNo(level) ==
    CASE level = "DEBUG" -> 10 [] level = "INFO" -> 20 [] level = "ERROR" -> 40 [] OTHER -> 0

LOG_LEVEL == "INFO"

\* logger.<level>(msg): the record is emitted when the level passes the threshold.
emit(lg, level, msg) ==
    IF LevelNo(level) >= LevelNo(LOG_LEVEL) THEN Append(lg, [level |-> level, msg |-> msg])
    ELSE lg

\* A returned text is a sequence of pieces; this is the fixed fallback message.
FALLBACK == <<"Nao foi possivel gerar o sumario automatico.">>

\* The text get_response returns for a prompt, when it returns.
ResponseTo(prompt) == <<"response", prompt>>

\* A variant that calls get_response once more after a failure.
generate_ai_summary_retry(data_summary, area, chart, outcomes) ==
    LET prompt == generate_prompt(data_summary, area, chart)
        lg1 == emit(emit(<<>>, "INFO", "Prompt gerado com sucesso."), "DEBUG", "Prompt gerado")
    IN  IF outcomes[1] = "returns" THEN
            [raised |-> "none", value |-> ResponseTo(prompt),
             sent |-> <<prompt>>, answers |-> <<"returns">>, st_error |-> FALSE,
             log |-> emit(emit(lg1, "INFO", "Sumario gerado com sucesso."),
                          "DEBUG", "Sumario gerado")]
        ELSE IF outcomes[2] = "returns" THEN
            [raised |-> "none", value |-> ResponseTo(prompt),
             sent |-> <<prompt, prompt>>, answers |-> <<"raises", "returns">>,
             st_error |-> FALSE,
             log |-> emit(emit(lg1, "INFO", "Sumario gerado com sucesso."),
                          "DEBUG", "Sumario gerado")]
        ELSE
            [raised |-> "none", value |-> FALLBACK,
             sent |-> <<prompt, prompt>>, answers |-> <<"raises", "raises">>,
             st_error |-> TRUE,
             log |-> emit(lg1, "ERROR", "Erro ao gerar sumario")]

\* generate_ai_summary's body (a cache miss).  outcomes[i] is what the i-th call
\* of get_response does, "returns" or "raises"; `sent` lists the prompts passed
\* to get_response and `answers` what each call did; value is the text returned
\* to the caller.
generate_ai_summary(data_summary, area, chart, outcomes) ==
    LET prompt == generate_prompt(data_summary, area, chart)
        lg1 == emit(emit(<<>>, "INFO", "Prompt gerado com sucesso."), "DEBUG", "Prompt gerado")
    IN  IF outcomes[1] = "returns" THEN
            [raised |-> "none", value |-> ResponseTo(prompt),
             sent |-> <<prompt>>, answers |-> <<"returns">>, st_error |-> FALSE,
             log |-> emit(emit(lg1, "INFO", "Sumario gerado com sucesso."),
                          "DEBUG", "Sumario gerado")]
        ELSE
            [raised |-> "none", value |-> FALLBACK,
             sent |-> <<prompt>>, answers |-> <<"raises">>, st_error |-> TRUE,
             log |-> emit(lg1, "ERROR", "Erro ao gerar sumario")]


Outcomes == [1..2 -> {"returns", "raises"}]

\* @st.cache_data on generate_ai_summary: the arguments are the key; a hit
\* returns the stored value (and replays the stored st.error) without running
\* the body, a miss runs the body and stores what it returned.
cached_generate_ai_summary(cache, data_summary, area, chart, outcomes) ==
    LET key == <<data_summary, area, chart>>
        hits == {e \in cache : e.key = key}
    IN  IF hits # {} THEN
            LET e == CHOOSE e \in hits : TRUE
            IN  [hit |-> TRUE, raised |-> "none", value |-> e.value, st_error |-> e.st_error,
                 sent |-> <<>>, answers |-> <<>>, log |-> <<>>, cache |-> cache]
        ELSE
            LET r == generate_ai_summary(data_summary, area, chart, outcomes)
            IN  [hit |-> FALSE, raised |-> r.raised, value |-> r.value,
                 st_error |-> r.st_error, sent |-> r.sent, answers |-> r.answers,
                 log |-> r.log,
                 cache |-> cache \cup {[key |-> key, value |-> r.value,
                                        st_error |-> r.st_error]}]

(***************************************************************************)
(* The Streamlit session: every interaction runs main.py from the top.     *)
(* The file does not change during a session, so the memoisation of        *)
(* load_data and of the two chart builders (which return what a fresh call *)
(* returns) is not observable and is left out; generate_ai_summary's cache *)
(* is kept, because get_response need not answer twice alike.              *)
(***************************************************************************)
SessionTables ==
    { <<>>,
      <<CsvRow(TEM_INTERNET, "Alta", 1), CsvRow(NAO_TEM_INTERNET, "Baixa", 0)>>,
      <<CsvRow(TEM_INTERNET, "Alta", 1), CsvRow(NAO_TEM_INTERNET, "Baixa", -1),
        CsvRow(NA, "Baixa", 1)>> }

Files ==
    {[status |-> "missing", content |-> <<>>]}
    \cup {[status |-> s, content |-> t] : s \in {"ok", "malformed"}, t \in SessionTables}

Unbound == [bound |-> FALSE, value |-> load_data(<<>>)]

EmptyPage ==
    [error |-> <<>>, chart |-> <<>>, metrics |-> <<>>, summary |-> <<>>,
     area_chart |-> <<>>, table |-> <<>>, comparison |-> <<>>]

Entropy == {0, 1}

Terminal == {"done", "stopped", "aborted"}

CoreIdle ==
    /\ records = load_data(<<>>)
    /\ records0 = load_data(<<>>)
    /\ long_in = <<>>
    /\ call = <<"none">>
    /\ out = <<>>
    /\ again = <<>>

Init ==
    /\ file \in Files
    /\ pc = "start"
    /\ runs = 1
    /\ clicked = "none"
    /\ selected_area = AREA_OPTIONS[1][1]
    /\ chart_type = CHART_TYPES[1]
    /\ df = Unbound
    /\ load_calls = 0
    /\ steps = 0
    /\ page = EmptyPage
    /\ ai_cache = {}
    /\ request = <<>>
    /\ log = <<>>
    /\ CoreIdle

\* main.py:38-40: the except branch ends the run with st.stop().
after_load_failure_continue == "tab1_chart"

after_load_failure == "stopped"

\* main.py:36-40: df = load_data() inside try/except.
LoadData ==
    /\ pc = "start"
    /\ load_calls' = load_calls + 1
    /\ IF file.status = "ok"
       THEN /\ df' = [bound |-> TRUE, value |-> load_data(file.content)]
            /\ page' = page
            /\ pc' = "tab1_chart"
       ELSE /\ df' = df
            /\ page' = [page EXCEPT !.error = <<"Erro ao carregar dados">>]
            /\ pc' = after_load_failure
    /\ UNCHANGED <<file, runs, clicked, selected_area, chart_type, steps, ai_cache,
                   request, log>>
    /\ UNCHANGED coreVars

\* main.py:173-179: the main chart.
Tab1Chart ==
    /\ pc = "tab1_chart"
    /\ \E entropy \in Entropy :
          LET r == generate_comparison_chart(df.value, AreaCol(selected_area), chart_type,
                                             selected_area, SampleCap, entropy)
          IN  /\ df' = [df EXCEPT !.value = r._df]
              /\ page' = [page EXCEPT !.chart = <<r.fig>>]
              /\ pc' = IF r.raised = "none" THEN "tab1_metrics" ELSE "aborted"
    /\ steps' = steps + 1
    /\ UNCHANGED <<file, runs, clicked, selected_area, chart_type, load_calls, ai_cache,
                   request, log>>
    /\ UNCHANGED coreVars

\* main.py:184-195: the three metrics.
Tab1Metrics ==
    /\ pc = "tab1_metrics"
    /\ LET m == tab1_metrics(df.value, AreaCol(selected_area))
       IN  /\ page' = [page EXCEPT !.metrics = <<m>>]
           /\ pc' = IF m.raised = "none" THEN "tab1_summary" ELSE "aborted"
    /\ steps' = steps + 1
    /\ UNCHANGED <<file, runs, clicked, selected_area, chart_type, df, load_calls,
                   ai_cache, request, log>>
    /\ UNCHANGED coreVars

\* What a button's if-block does with generate_ai_summary's answer.
Summarize(tab, element, data_summary, area, chart) ==
    \E outcomes \in Outcomes :
        LET r == cached_generate_ai_summary(ai_cache, data_summary, area, chart, outcomes)
        IN  /\ request' = <<[tab |-> tab, hit |-> r.hit, raised |-> r.raised,
                             value |-> r.value, st_error |-> r.st_error,
                             sent |-> r.sent, answers |-> r.answers, log |-> r.log]>>
            /\ ai_cache' = r.cache
            /\ log' = log \o r.log
            /\ page' = [page EXCEPT ![element] = <<r.value>>]

\* main.py:201-210: summary_data, and the "Gerar Sumario Automatico" button.
Tab1Summary ==
    /\ pc = "tab1_summary"
    /\ IF clicked = "summary"
       THEN Summarize("tab1", "summary", summary_data(df.value, AreaCol(selected_area)),
                      selected_area, chart_type)
       ELSE UNCHANGED <<request, ai_cache, log, page>>
    /\ steps' = steps + 1
    /\ pc' = "tab2_chart"
    /\ UNCHANGED <<file, runs, clicked, selected_area, chart_type, df, load_calls>>
    /\ UNCHANGED coreVars

\* main.py:216-218: the comparison between areas.
Tab2Chart ==
    /\ pc = "tab2_chart"
    /\ LET r == generate_area_comparison(df.value, AREA_OPTIONS)
       IN  /\ df' = [df EXCEPT !.value = r._df]
           /\ page' = [page EXCEPT !.area_chart = <<r.fig>>]
    /\ steps' = steps + 1
    /\ pc' = "tab2_table"
    /\ UNCHANGED <<file, runs, clicked, selected_area, chart_type, load_calls, ai_cache,
                   request, log>>
    /\ UNCHANGED coreVars

\* main.py:223-235: the summary table and its pivot; an exception of pivot is
\* not caught and ends the run.
Tab2Table ==
    /\ pc = "tab2_table"
    /\ LET t == tab2_table(summary_df(df.value, AREA_OPTIONS), page)
       IN  /\ page' = t.page
           /\ pc' = t.pc
    /\ steps' = steps + 1
    /\ UNCHANGED <<file, runs, clicked, selected_area, chart_type, df, load_calls,
                   ai_cache, request, log>>
    /\ UNCHANGED coreVars

\* main.py:240-253: the "Gerar Analise Comparativa" button.
Tab2Summary ==
    /\ pc = "tab2_summary"
    /\ IF clicked = "comparison"
       THEN /\ Summarize("tab2", "comparison",
                         comparison_data(summary_df(df.value, AREA_OPTIONS)),
                         "Comparacao entre Areas", "Tabela Comparativa")
            /\ steps' = steps + 1
       ELSE UNCHANGED <<request, ai_cache, log, page, steps>>
    /\ pc' = "done"
    /\ UNCHANGED <<file, runs, clicked, selected_area, chart_type, df, load_calls>>
    /\ UNCHANGED coreVars

\* An interaction starts the next run: the script's globals are fresh, the
\* widget values and the cache are kept.
StartRun(area, chart, button) ==
    /\ runs < MaxRuns
    /\ runs' = runs + 1
    /\ pc' = "start"
    /\ selected_area' = area
    /\ chart_type' = chart
    /\ clicked' = button
    /\ df' = Unbound
    /\ load_calls' = 0
    /\ steps' = 0
    /\ page' = EmptyPage
    /\ request' = <<>>
    /\ log' = <<>>
    /\ UNCHANGED <<file, ai_cache>>
    /\ UNCHANGED coreVars

SelectArea ==
    /\ pc = "done"
    /\ \E a \in AreaNames \ {selected_area} : StartRun(a, chart_type, "none")

SelectChart ==
    /\ pc = "done"
    /\ \E c \in Range(CHART_TYPES) \ {chart_type} : StartRun(selected_area, c, "none")

ClickSummary ==
    /\ pc = "done"
    /\ StartRun(selected_area, chart_type, "summary")

ClickComparison ==
    /\ pc = "done"
    /\ StartRun(selected_area, chart_type, "comparison")

\* The browser reloads the page: a new session with the widgets' defaults.
Refresh ==
    /\ pc \in Terminal
    /\ StartRun(AREA_OPTIONS[1][1], CHART_TYPES[1], "none")

\* ttl=3600: an entry of the cache expires.
ExpireCache ==
    /\ pc \in Terminal
    /\ \E e \in ai_cache : ai_cache' = ai_cache \ {e}
    /\ UNCHANGED <<file, pc, runs, clicked, selected_area, chart_type, df, load_calls,
                   steps, page, request, log>>
    /\ UNCHANGED coreVars

Next ==
    \/ LoadData
    \/ Tab1Chart
    \/ Tab1Metrics
    \/ Tab1Summary
    \/ Tab2Chart
    \/ Tab2Table
    \/ Tab2Summary
    \/ SelectArea
    \/ SelectChart
    \/ ClickSummary
    \/ ClickComparison
    \/ Refresh
    \/ ExpireCache

Spec == Init /\ [][Next]_vars


(***************************************************************************)
(* The core operations: one of them applied to drawn inputs; an operation  *)
(* that draws random numbers is applied twice, under entropy drawn anew.   *)
(* (The session above is where the operations run one after the other.)    *)
(***************************************************************************)
\* A row of a long-form statistic table as summary_df holds them.
LongRow(area, internet, base) ==
    [Area |-> area, INTERNET |-> internet,
     mean |-> Nota(base, 1), median |-> Nota(base, 2), std |-> Nota(base, 3)]

LongRows ==
    {LongRow(a, i, b) : a \in {"Linguagens", "Matematica"},
                        i \in {TEM_INTERNET, NAO_TEM_INTERNET}, b \in {-1, 0, 1}}

LongTables == SeqsUpTo(LongRows, MaxLong) \ {<<>>}

\* The caps the sampled view is drawn with: the script's, and two that a drawn
\* table can exceed.
Caps == {1, 2, SampleCap}

SessionIdle ==
    /\ file = [status |-> "missing", content |-> <<>>]
    /\ pc = "core"
    /\ runs = 0
    /\ clicked = "none"
    /\ selected_area = AREA_OPTIONS[1][1]
    /\ chart_type = CHART_TYPES[1]
    /\ df = Unbound
    /\ load_calls = 0
    /\ steps = 0
    /\ page = EmptyPage
    /\ ai_cache = {}
    /\ request = <<>>
    /\ log = <<>>

CoreInit ==
    /\ SessionIdle
    /\ \/ /\ records \in {load_data(t) : t \in CsvTables}
          /\ long_in = <<>>
       \/ /\ records = load_data(<<>>)
          /\ long_in \in LongTables
    /\ records0 = records
    /\ call = <<"none">>
    /\ out = <<>>
    /\ again = <<>>

ApplyChart ==
    /\ call = <<"none">>
    /\ long_in = <<>>
    /\ \E a \in 1..Len(AREA_OPTIONS), c \in Range(CHART_TYPES), cap \in Caps,
          e1 \in Entropy, e2 \in Entropy :
          /\ e1 # e2
          /\ c # CHART_TYPES[1] => (cap = SampleCap /\ e1 = 0)
          /\ LET area == AREA_OPTIONS[a][1]
                 col == AREA_OPTIONS[a][2]
                 r1 == generate_comparison_chart(records, col, c, area, cap, e1)
                 r2 == generate_comparison_chart(r1._df, col, c, area, cap, e2)
             IN  /\ call' = <<"generate_comparison_chart", col, c, cap>>
                 /\ out' = [raised |-> r1.raised, fig |-> r1.fig]
                 /\ again' = [raised |-> r2.raised, fig |-> r2.fig]
                 /\ records' = r2._df
    /\ UNCHANGED <<records0, long_in>>
    /\ UNCHANGED sessionVars

ApplyMetrics ==
    /\ call = <<"none">>
    /\ long_in = <<>>
    /\ \E col \in NotaCols :
          LET r == tab1_metrics(records, col)
          IN  /\ call' = <<"tab1_metrics", col>>
              /\ out' = r
              /\ again' = r
    /\ UNCHANGED <<records, records0, long_in>>
    /\ UNCHANGED sessionVars

ApplySummaryData ==
    /\ call = <<"none">>
    /\ long_in = <<>>
    /\ \E col \in NotaCols :
          LET r == summary_data(records, col)
          IN  /\ call' = <<"summary_data", col>>
              /\ out' = r
              /\ again' = r
    /\ UNCHANGED <<records, records0, long_in>>
    /\ UNCHANGED sessionVars

ApplyAreaComparison ==
    /\ call = <<"none">>
    /\ long_in = <<>>
    /\ LET r1 == generate_area_comparison(records, AREA_OPTIONS)
           r2 == generate_area_comparison(r1._df, AREA_OPTIONS)
       IN  /\ call' = <<"generate_area_comparison">>
           /\ out' = [fig |-> r1.fig, stats_df |-> r1.stats_df]
           /\ again' = [fig |-> r2.fig, stats_df |-> r2.stats_df]
           /\ records' = r2._df
    /\ UNCHANGED <<records0, long_in>>
    /\ UNCHANGED sessionVars

ApplySummaryTable ==
    /\ call = <<"none">>
    /\ long_in = <<>>
    /\ LET long == summary_df(records, AREA_OPTIONS)
           r == [summary_df |-> long, wide |-> tab2_table(long, EmptyPage).wide]
       IN  /\ call' = <<"summary_table">>
           /\ out' = r
           /\ again' = r
    /\ UNCHANGED <<records, records0, long_in>>
    /\ UNCHANGED sessionVars

ApplyPivot ==
    /\ call = <<"none">>
    /\ long_in # <<>>
    /\ LET r == tab2_table(long_in, EmptyPage)
       IN  /\ call' = <<"pivot">>
           /\ out' = r
           /\ again' = r
    /\ UNCHANGED <<records, records0, long_in>>
    /\ UNCHANGED sessionVars

ApplyPrompt ==
    /\ call = <<"none">>
    /\ long_in = <<>>
    /\ \E a \in 1..Len(AREA_OPTIONS), c \in Range(CHART_TYPES) :
          LET data_summary == summary_data(records, AREA_OPTIONS[a][2])
              r == generate_prompt(data_summary, AREA_OPTIONS[a][1], c)
          IN  /\ call' = <<"generate_prompt", AREA_OPTIONS[a][1], c>>
              /\ out' = r
              /\ again' = r
    /\ UNCHANGED <<records, records0, long_in>>
    /\ UNCHANGED sessionVars

CoreNext ==
    \/ ApplyChart
    \/ ApplyMetrics
    \/ ApplySummaryData
    \/ ApplyAreaComparison
    \/ ApplySummaryTable
    \/ ApplyPivot
    \/ ApplyPrompt

CoreSpec == CoreInit /\ [][CoreNext]_vars


(***************************************************************************)
(* Properties                                                              *)
(***************************************************************************)
RECURSIVE SumInt(_)
SumInt(s) == IF s = <<>> THEN 0 ELSE Head(s) + SumInt(Tail(s))

Rows == 1..Len(records.rows)

InGroup(i, by, g) == \A k \in 1..Len(by) : records.rows[i][by[k]] = g[by[k]]

HasValue(i, col) == ~isna(records.rows[i][col])

HasKeys(i, by) == \A k \in 1..Len(by) : records.rows[i][by[k]] # NA

\* Some record of group g has a value in column col.
GroupHasData(by, g, col) == \E i \in Rows : InGroup(i, by, g) /\ HasValue(i, col)

\* The number of records of group g with a value in column col.
GroupCount(by, g, col) == Cardinality({i \in Rows : InGroup(i, by, g) /\ HasValue(i, col)})

IsCall(name) == call[1] = name

IsBarCall == IsCall("generate_comparison_chart") /\ call[3] = CHART_TYPES[3]

IsBoxCall == IsCall("generate_comparison_chart") /\ call[3] = CHART_TYPES[1]

RENDA_INTERNET == <<"RENDA_SIMPLIFICADA", "INTERNET">>

\* C1: every group an aggregation emits (the describe() summary per access flag,
\* the grouped means per income bracket and access flag, the per-area
\* mean/median/std table) has at least one record with a value of the metric:
\* no group is emitted with count 0 or NaN statistics.
C1_EmittedGroupsHaveData ==
    /\ IsCall("summary_data") =>
          \A j \in 1..Len(out.rows) :
              /\ GroupHasData(<<"INTERNET">>, out.rows[j], call[2])
              /\ out.rows[j]["count"].n > 0
              /\ ~isna(out.rows[j]["mean"])
    /\ IsBarCall =>
          \A j \in 1..Len(out.fig.data) :
              /\ GroupHasData(RENDA_INTERNET, out.fig.data[j], call[2])
              /\ ~isna(out.fig.data[j][call[2]])
    /\ IsCall("summary_table") =>
          \A j \in 1..Len(out.summary_df) :
              /\ GroupHasData(<<"INTERNET">>, out.summary_df[j],
                              AreaCol(out.summary_df[j]["Area"]))
              /\ ~isna(out.summary_df[j]["mean"])

\* C2: when the no-access mean is zero, or the no-access group has no value at
\* all, computing the difference as a percentage of it fails with a
\* division-by-zero error.
C2_ZeroBaselineFailsFast ==
    (IsCall("tab1_metrics") /\ (isna(out.mean_without) \/ out.mean_without = Num(0)))
        => out.raised = "ZeroDivisionError"

\* C3: a summary request whose call reaches the body of generate_ai_summary
\* passes exactly one prompt to get_response; when that call raises, the error
\* is logged, nothing is raised to the script and the fixed fallback message is
\* returned; when it returns, its text is returned.  (A request served from the
\* cache calls get_response not at all.)
C3_OneAttemptPerRequest ==
    \A i \in 1..Len(request) :
        LET q == request[i]
        IN  IF q.hit THEN q.sent = <<>>
            ELSE /\ Len(q.sent) = 1
                 /\ q.raised = "none"
                 /\ q.answers[1] = "raises" =>
                       /\ q.value = FALLBACK
                       /\ \E k \in 1..Len(log) : log[k].level = "ERROR"
                 /\ q.answers[1] = "returns" => q.value = ResponseTo(q.sent[1])

C3_FailedRequest ==
    /\ pc = "done"
    /\ request # <<>>
    /\ ~request[1].hit
    /\ request[1].answers = <<"raises">>
    /\ page.summary = <<FALLBACK>>

\* C4 as stated: the member counts of the groups an aggregation returns add up
\* to the number of records that have a value of the metric.
C4_CountsCoverEveryValue ==
    /\ IsCall("summary_data") =>
          SumInt(Map(out.rows, LAMBDA r : r["count"].n))
              = Cardinality({i \in Rows : HasValue(i, call[2])})
    /\ IsBarCall =>
          SumInt(Map(out.fig.data, LAMBDA g : GroupCount(RENDA_INTERNET, g, call[2])))
              = Cardinality({i \in Rows : HasValue(i, call[2])})

\* C4 amended: the member counts of the groups add up to the number of records
\* that have a value of the metric and a value in every group-key column (a
\* record with a missing key belongs to no group); no record is in two groups.
C4_CountsCoverKeyedValues ==
    /\ IsCall("summary_data") =>
          /\ SumInt(Map(out.rows, LAMBDA r : r["count"].n))
                = Cardinality({i \in Rows : HasValue(i, call[2]) /\ HasKeys(i, <<"INTERNET">>)})
          /\ \A j \in 1..Len(out.rows) :
                out.rows[j]["count"].n = GroupCount(<<"INTERNET">>, out.rows[j], call[2])
    /\ IsBarCall =>
          SumInt(Map(out.fig.data, LAMBDA g : GroupCount(RENDA_INTERNET, g, call[2])))
              = Cardinality({i \in Rows : HasValue(i, call[2]) /\ HasKeys(i, RENDA_INTERNET)})

C4_RecordWithoutKey ==
    /\ IsCall("summary_data")
    /\ Len(out.rows) = 1
    /\ out.rows[1]["count"].n = 1
    /\ \E i \in Rows : HasValue(i, call[2]) /\ ~HasKeys(i, <<"INTERNET">>)

\* C5: the sampled view of the boxplot holds min(cap, number of records)
\* records of the table, no record twice, each with the values it has in the
\* table; a second call on the same table selects the same set of records.
C5_SampledView ==
    IsBoxCall =>
        /\ out.raised = "none"
        /\ Len(out.fig.index) = Min(call[4], Len(records.rows))
        /\ Range(out.fig.index) \subseteq Rows
        /\ Cardinality(Range(out.fig.index)) = Len(out.fig.index)
        /\ \A k \in 1..Len(out.fig.index) :
              out.fig.data[k] = [x |-> records.rows[out.fig.index[k]].INTERNET,
                                 y |-> records.rows[out.fig.index[k]][call[2]]]
        /\ Range(again.fig.index) = Range(out.fig.index)

C5_CapBinds ==
    /\ IsBoxCall
    /\ call[4] < Len(records.rows)
    /\ Len(out.fig.index) = call[4]

\* The long form of a wide table: one (area, access flag, statistic, value) per cell.
Unpivot(wide) ==
    {<<a, c[2], c[1], wide.cells[a][c]>> : a \in Range(wide.index), c \in Range(wide.columns)}

\* The (area, access flag, statistic, value) entries of a long-form table.
LongEntries(long, stats) ==
    {<<long[j]["Area"], long[j]["INTERNET"], st, long[j][st]>> :
        j \in 1..Len(long), st \in stats}

\* C6 as stated: un-pivoting the wide table yields exactly the entries of the
\* long-form table the grouping produced.
C6_RoundTripEveryStatistic ==
    IsCall("summary_table") =>
        /\ out.wide.raised = "none"
        /\ Unpivot(out.wide) = LongEntries(out.summary_df, {"mean", "median", "std"})

\* C6 amended: un-pivoting the wide table yields exactly the mean and median
\* entries of the long-form table; its std column is not carried into the wide
\* table.
C6_RoundTripMeanMedian ==
    IsCall("summary_table") =>
        /\ out.wide.raised = "none"
        /\ Unpivot(out.wide) = LongEntries(out.summary_df, {"mean", "median"})

C6_PivotedTable ==
    /\ IsCall("summary_table")
    /\ Len(out.summary_df) = 10
    /\ Cardinality(Unpivot(out.wide)) = 20

DuplicateKey(long) ==
    \E i, j \in 1..Len(long) :
        /\ i < j
        /\ long[i]["Area"] = long[j]["Area"]
        /\ long[i]["INTERNET"] = long[j]["INTERNET"]

\* C7: a long-form table with two rows of the same (area, access flag) makes the
\* pivot fail: no wide table is built, none is displayed, and the run ends.
C7_DuplicateKeysFail ==
    (IsCall("pivot") /\ DuplicateKey(long_in)) =>
        /\ out.raised = "ValueError"
        /\ out.wide.cells = <<>>
        /\ out.page.table = <<>>
        /\ out.pc = "aborted"

C7_DuplicateGiven ==
    /\ IsCall("pivot")
    /\ DuplicateKey(long_in)
    /\ long_in[1]["mean"] # long_in[2]["mean"]
    /\ out.pc = "aborted"

\* C8: no step of a run changes the loaded record table, and what a step
\* produces depends on its arguments alone: the chart is the one any entropy
\* gives, and the prompt sent holds both labels and the serialized table.
C8_OperationsArePure ==
    /\ df.bound => df.value = load_data(file.content)
    /\ page.chart # <<>> =>
          \A e \in Entropy :
              page.chart[1] = generate_comparison_chart(load_data(file.content),
                                  AreaCol(selected_area), chart_type, selected_area,
                                  SampleCap, e).fig
    /\ \A i \in 1..Len(request) :
          (request[i].tab = "tab1" /\ ~request[i].hit) =>
              /\ request[i].sent[1][4] = selected_area
              /\ request[i].sent[1][6] = chart_type
              /\ request[i].sent[1][8] =
                    to_string(summary_data(load_data(file.content), AreaCol(selected_area)))

C8_AllStepsDone ==
    /\ pc = "done"
    /\ df.bound
    /\ Len(df.value.rows) = 3
    /\ steps >= 5
    /\ request # <<>>
    /\ request[1].tab = "tab1"
    /\ ~request[1].hit

Cell(t) == <<t.row, t.col>>

C10_LoadFailureStopsRun ==
    (page.error # <<>> \/ (pc # "start" /\ file.status # "ok")) =>
        /\ pc = "stopped"
        /\ page.error # <<>>
        /\ ~df.bound
        /\ load_calls = 1
        /\ steps = 0
        /\ request = <<>>
        /\ page.chart = <<>> /\ page.metrics = <<>> /\ page.table = <<>>

C10_MalformedFile ==
    /\ pc = "stopped"
    /\ file.status = "malformed"
    /\ file.content # <<>>
    /\ runs = 2

=============================================================================
